---- MODULE Spec2Model ----
(***************************************************************************)
(* StreamResolver.resolve (src/utils/StreamResolver.ts) as a state machine. *)
(*                                                                         *)
(* One resolve call: the sources are partitioned into prioritized and      *)
(* other sources, the prioritized ones are handled one after the other     *)
(* with an early cutoff, the others are handled concurrently when too few  *)
(* results were found, and the aggregate is sorted, formatted and given a  *)
(* ttl.  The calls into Source.handle and ExtractorRegistry.handle are the *)
(* suspension points: each is one "call is in flight" state that the       *)
(* environment ends by a return or by a failure.                           *)
(***************************************************************************)
EXTENDS Integers, Sequences, FiniteSets, TLC

(***************************************************************************)
(* Bounds of the model and the input domain.                               *)
(***************************************************************************)
\* extractor calls (candidate URLs of all sources together) in one resolve call, at most
MaxExtractorCalls == 2
\* sources in the list handed to resolve, at most
MaxSources == 2

\* "undefined" for an optional number (meta.height, meta.bytes, ttl)
NoVal == -1

\* the ids of the sources a request may be configured with
SourceIds == {"embed69", "cinehdplus", "xupalace", "cuevana", "verhdlink"}

\* source.contentTypes of each of them
ContentTypesOf(s) ==
  CASE s = "cinehdplus" -> {"series"}
    [] s = "verhdlink"  -> {"movie"}
    [] OTHER            -> {"movie", "series"}

\* what one extractor call may return for a candidate URL: the fields of a
\* UrlResult that resolve reads (error, isExternal, meta.height, meta.bytes,
\* label, ttl)
UrlResultShapes ==
  { [error |-> FALSE, isExternal |-> FALSE, height |-> 1080,  bytes |-> 2,     label |-> "a", ttl |-> 2],
    [error |-> FALSE, isExternal |-> TRUE,  height |-> NoVal, bytes |-> NoVal, label |-> "a", ttl |-> NoVal],
    [error |-> TRUE,  isExternal |-> FALSE, height |-> 720,   bytes |-> NoVal, label |-> "b", ttl |-> 1] }

(***************************************************************************)
(* Helpers on sequences.                                                   *)
(***************************************************************************)
Range(seq) == {seq[k] : k \in DOMAIN seq}

RECURSIVE SeqsOver(_, _)
\* the sequences of distinct elements of S of length at most n
SeqsOver(S, n) ==
  IF n = 0 THEN {<<>>}
  ELSE LET shorter == SeqsOver(S, n - 1)
       IN  shorter \cup
           UNION { {Append(p, x) : x \in S \ Range(p)} :
                   p \in {q \in shorter : Len(q) = n - 1} }

\* seq.filter(Keep), for a set Keep of the elements kept
RECURSIVE FilterSeq(_, _)
FilterSeq(seq, Keep) ==
  IF seq = <<>> THEN <<>>
  ELSE (IF Head(seq) \in Keep THEN <<Head(seq)>> ELSE <<>>) \o FilterSeq(Tail(seq), Keep)

\* [[...], [...]].flat()
RECURSIVE Flat(_)
Flat(seqs) == IF seqs = <<>> THEN <<>> ELSE Head(seqs) \o Flat(Tail(seqs))

\* array.indexOf(x), from 1; 0 when x is not in it
IndexOf(seq, x) ==
  IF x \in Range(seq) THEN CHOOSE k \in DOMAIN seq : seq[k] = x /\ \A j \in 1..(k - 1) : seq[j] # x
  ELSE 0

\* allUrlResults.filter(r => !r.error).length
NonErrorCount(urlResults) == Cardinality({k \in DOMAIN urlResults : ~urlResults[k].error})

(***************************************************************************)
(* The pure parts of resolve: ranking, ttl, quality labels.                *)
(***************************************************************************)
\* v ?? 0
OrZero(v) == IF v = NoVal THEN 0 ELSE v

\* a.localeCompare(b) on the labels of the model
LabelRank(l) == IF l = "a" THEN 1 ELSE 2
LocaleCompare(a, b) ==
  IF a = b THEN 0 ELSE IF LabelRank(a) < LabelRank(b) THEN -1 ELSE 1

\* the comparator without its test of isExternal
CompareIgnoringExternal(a, b) ==
  IF a.error \/ b.error THEN (IF a.error THEN 1 ELSE -1)
  ELSE LET heightComparison == OrZero(b.height) - OrZero(a.height)
           bytesComparison  == OrZero(b.bytes) - OrZero(a.bytes)
       IN  IF heightComparison # 0 THEN heightComparison
           ELSE IF bytesComparison # 0 THEN bytesComparison
           ELSE LocaleCompare(a.label, b.label)

\* lines 145-165: the comparator handed to allUrlResults.sort
Compare(a, b) ==
  IF a.error \/ b.error THEN (IF a.error THEN 1 ELSE -1)
  ELSE IF a.isExternal \/ b.isExternal THEN (IF a.isExternal THEN 1 ELSE -1)
  ELSE LET heightComparison == OrZero(b.height) - OrZero(a.height)
           bytesComparison  == OrZero(b.bytes) - OrZero(a.bytes)
       IN  IF heightComparison # 0 THEN heightComparison
           ELSE IF bytesComparison # 0 THEN bytesComparison
           ELSE LocaleCompare(a.label, b.label)

(* Array.prototype.sort as the runtime of the program (V8) runs it on an   *)
(* array shorter than 64 elements: the leading run is found (and reversed  *)
(* when strictly descending), then every later element is inserted by     *)
(* binary search.  The comparator above is not consistent (two error       *)
(* results, or two external ones, each rank after the other), so the       *)
(* result is the one this algorithm produces, not "the sorted order".      *)
RECURSIVE RunEnd(_, _, _)
\* CountAndMakeRun's loop: the length of the run that starts the array
RunEnd(arr, idx, isDescending) ==
  IF idx > Len(arr) THEN idx - 1
  ELSE LET order == Compare(arr[idx], arr[idx - 1])
       IN  IF (isDescending /\ order >= 0) \/ (~isDescending /\ order < 0)
           THEN idx - 1
           ELSE RunEnd(arr, idx + 1, isDescending)

ReversePrefix(arr, n) ==
  [k \in DOMAIN arr |-> IF k <= n THEN arr[n + 1 - k] ELSE arr[k]]

RECURSIVE SearchPos(_, _, _, _)
\* BinaryInsertionSort's search: where pivot goes in arr[left .. right-1]
SearchPos(arr, pivot, left, right) ==
  IF left >= right THEN left
  ELSE LET mid == left + ((right - left) \div 2)
       IN  IF Compare(pivot, arr[mid]) < 0
           THEN SearchPos(arr, pivot, left, mid)
           ELSE SearchPos(arr, pivot, mid + 1, right)

InsertAt(arr, start) ==
  LET pivot == arr[start]
      left  == SearchPos(arr, pivot, 1, start)
  IN  [k \in DOMAIN arr |->
         IF k < left THEN arr[k]
         ELSE IF k = left THEN pivot
         ELSE IF k <= start THEN arr[k - 1]
         ELSE arr[k]]

RECURSIVE BinaryInsertionSort(_, _)
BinaryInsertionSort(arr, start) ==
  IF start > Len(arr) THEN arr
  ELSE BinaryInsertionSort(InsertAt(arr, start), start + 1)

\* line 145: allUrlResults.sort(Compare)
SortUrlResults(arr) ==
  IF Len(arr) < 2 THEN arr
  ELSE LET isDescending == Compare(arr[2], arr[1]) < 0
           runLength    == RunEnd(arr, 3, isDescending)
           run          == IF isDescending THEN ReversePrefix(arr, runLength) ELSE arr
       IN  BinaryInsertionSort(run, runLength + 1)

\* Math.min(...ttls), for a non-empty array
MinTtl(urlResults) ==
  CHOOSE m \in {urlResults[k].ttl : k \in DOMAIN urlResults} :
    \A k \in DOMAIN urlResults : m <= urlResults[k].ttl

\* line 220
EmptyTtl == 900000

\* lines 218-228
determineTtl(urlResults) ==
  IF Len(urlResults) = 0 THEN EmptyTtl
  ELSE IF \E k \in DOMAIN urlResults : urlResults[k].ttl = NoVal THEN NoVal
  ELSE MinTtl(urlResults)

\* the ttl determined whether or not a source failed
ResponseTtlIgnoringErrors(errorCount, urlResults) == determineTtl(urlResults)

\* line 209: no ttl is determined when a source failed
ResponseTtl(errorCount, urlResults) ==
  IF errorCount = 0 THEN determineTtl(urlResults) ELSE NoVal

\* line 213: ...(ttl && { ttl }), the ttl field of the response (NoVal: no field)
TtlField(ttl) == IF ttl = NoVal \/ ttl = 0 THEN NoVal ELSE ttl

\* no quality label (undefined)
NoLabel == "undefined"

\* the thresholds taken as strict lower limits
mapHeightToQualityLabelAbove(height) ==
  IF height = NoVal THEN NoLabel
  ELSE IF height > 2160 THEN "2160p"
  ELSE IF height > 1440 THEN "1440p"
  ELSE IF height > 1080 THEN "1080p"
  ELSE IF height > 720 THEN "720p"
  ELSE IF height > 576 THEN "576p"
  ELSE IF height > 480 THEN "480p"
  ELSE IF height > 360 THEN "360p"
  ELSE "240p"

\* lines 230-241
mapHeightToQualityLabel(height) ==
  IF height = NoVal THEN NoLabel
  ELSE IF height >= 2160 THEN "2160p"
  ELSE IF height >= 1440 THEN "1440p"
  ELSE IF height >= 1080 THEN "1080p"
  ELSE IF height >= 720 THEN "720p"
  ELSE IF height >= 576 THEN "576p"
  ELSE IF height >= 480 THEN "480p"
  ELSE IF height >= 360 THEN "360p"
  ELSE IF height >= 240 THEN "240p"
  ELSE "240p"

\* lines 243-254
mapQualityToResolutionLabel(quality) ==
  CASE quality = "2160p" -> "4K"
    [] quality = "1440p" -> "QHD"
    [] quality = "1080p" -> "FHD"
    [] quality = "720p"  -> "HD"
    [] quality = "576p"  -> "SD"
    [] quality = "480p"  -> "SD"
    [] quality = "360p"  -> "SD"
    [] OTHER             -> "n/a"

\* lines 172-204: the stream entry of a URL result (the fields the model keeps);
\* qualityLabel && {...}: quality and resolution only with a non-empty label
UrlStream(urlResult) ==
  LET qualityLabel == mapHeightToQualityLabel(urlResult.height)
  IN  [kind       |-> "url",
       source     |-> urlResult.src,
       result     |-> <<urlResult>>,
       quality    |-> qualityLabel,
       resolution |-> IF qualityLabel # NoLabel
                      THEN mapQualityToResolutionLabel(qualityLabel) ELSE NoLabel]

\* lines 96-100: the synthesized stream of a failed source
SourceErrorStream(s) ==
  [kind |-> "sourceError", source |-> s, result |-> <<>>,
   quality |-> NoLabel, resolution |-> NoLabel]

\* lines 45-49: the stream of the response to an empty sources list
NoSourcesStream ==
  [kind |-> "noSources", source |-> "hostUrl", result |-> <<>>,
   quality |-> NoLabel, resolution |-> NoLabel]

\* every URL result shown, the error results too
ShownResultsAll(urlResults, showErr) == urlResults

\* line 171: .filter(urlResult => !urlResult.error || showErrors(ctx.config))
RECURSIVE ShownResults(_, _)
ShownResults(urlResults, showErr) ==
  IF urlResults = <<>> THEN <<>>
  ELSE (IF ~Head(urlResults).error \/ showErr THEN <<Head(urlResults)>> ELSE <<>>)
       \o ShownResults(Tail(urlResults), showErr)

\* the streams with the source-error streams at the end
BuildStreamsErrorsLast(errStreams, sorted, showErr) ==
  LET shown == ShownResults(sorted, showErr)
  IN  [k \in DOMAIN shown |-> UrlStream(shown[k])] \o errStreams

\* lines 167-206
BuildStreams(errStreams, sorted, showErr) ==
  LET shown == ShownResults(sorted, showErr)
  IN  errStreams \o [k \in DOMAIN shown |-> UrlStream(shown[k])]

(***************************************************************************)
(* The state of one resolve call.                                          *)
(***************************************************************************)
VARIABLES
  type,            \* the requested content type
  showErrorsCfg,   \* showErrors(ctx.config)
  sources,         \* the sources argument
  prioritizedSources,  \* the two constants of lines 61-64, <<>> before they are set
  otherSources,
  pc,              \* where resolve is
  loopIdx,         \* position of the for loop in prioritizedSources
  resultsBefore,   \* the loop's resultsBefore
  status,          \* per source: where its handleSource is
  extraction,      \* per source: its extractor calls, per candidate URL
  allUrlResults,
  errorStreams,
  sourceErrorCount,
  finalCountPrioritized,
  response,        \* what resolve returned
  handleCalls,     \* history: the sources whose handle was invoked, in order
  extractorCalls   \* history: how many extractor calls were made

vars == <<type, showErrorsCfg, sources, prioritizedSources, otherSources, pc, loopIdx, resultsBefore, status, extraction,
          allUrlResults, errorStreams, sourceErrorCount, finalCountPrioritized,
          response, handleCalls, extractorCalls>>

\* line 60
prioritySourceIds == <<"embed69", "pelisplus4k", "cinehdplus", "xupalace">>

\* line 63: the comparator of the sort of the prioritized sources
PriorityCompare(a, b) == IndexOf(prioritySourceIds, a) - IndexOf(prioritySourceIds, b)

\* line 63: [...].sort(PriorityCompare), a stable insertion of each element in turn
RECURSIVE SortByPriority(_)
SortByPriority(seq) ==
  IF seq = <<>> THEN <<>>
  ELSE LET front == SortByPriority(SubSeq(seq, 1, Len(seq) - 1))
           x     == seq[Len(seq)]
           notAfter == {k \in DOMAIN front : PriorityCompare(front[k], x) <= 0}
           pos   == Cardinality(notAfter)
       IN  SubSeq(front, 1, pos) \o <<x>> \o SubSeq(front, pos + 1, Len(front))

\* the prioritized sources left in the order of the sources argument
PrioritizedUnsorted(srcs) == FilterSeq(srcs, Range(prioritySourceIds))

\* lines 61-63
Prioritized(srcs) == SortByPriority(FilterSeq(srcs, Range(prioritySourceIds)))

\* line 64
Others(srcs) == FilterSeq(srcs, SourceIds \ Range(prioritySourceIds))

\* line 129
minNeededForParallel == IF type = "movie" THEN 1 ELSE 2

NoResponse == [returned |-> FALSE, streams |-> <<>>, ttl |-> NoVal]

Init ==
  /\ type \in {"movie", "series"}
  /\ showErrorsCfg \in BOOLEAN
  /\ sources \in SeqsOver(SourceIds, MaxSources)
  /\ prioritizedSources = <<>>
  /\ otherSources = <<>>
  /\ pc = "resolve"
  /\ loopIdx = 0
  /\ resultsBefore = 0
  /\ status = [s \in SourceIds |-> "idle"]
  /\ extraction = [s \in SourceIds |-> <<>>]
  /\ allUrlResults = <<>>
  /\ errorStreams = <<>>
  /\ sourceErrorCount = 0
  /\ finalCountPrioritized = NoVal
  /\ response = NoResponse
  /\ handleCalls = <<>>
  /\ extractorCalls = 0

(***************************************************************************)
(* resolve, one action per stretch of code between two suspension points.  *)
(***************************************************************************)
\* every source taken to support the type
SupportsAny(s) == TRUE

\* line 67: source.contentTypes.includes(type)
Supports(s) == type \in ContentTypesOf(s)

\* the handleSource call of s has ended (returned, or was never more than the
\* early return of line 67)
Settled(s) == status[s] \in {"skipped", "done", "failed"}

\* lines 136-214: sort the aggregate, build the streams, determine the ttl, return
Respond(urlResults) ==
  LET sorted == SortUrlResults(urlResults)
      ttl    == ResponseTtl(sourceErrorCount, sorted)
  IN  /\ allUrlResults' = sorted
      /\ response' = [returned |-> TRUE,
                      streams  |-> BuildStreams(errorStreams, sorted, showErrorsCfg),
                      ttl      |-> TtlField(ttl)]
      /\ pc' = "done"

\* the call without the answer of lines 42-52 to an empty sources list
ResolveWithoutFastPath ==
  /\ pc = "resolve"
  /\ prioritizedSources' = Prioritized(sources)
  /\ otherSources' = Others(sources)
  /\ pc' = IF Len(prioritizedSources') > 0 THEN "phase1" ELSE "afterPhase1"
  /\ loopIdx' = 1
  /\ UNCHANGED <<type, showErrorsCfg, sources, resultsBefore, status, extraction,
                 allUrlResults, errorStreams, sourceErrorCount, finalCountPrioritized,
                 response, handleCalls, extractorCalls>>

\* lines 42-64: the call; the empty sources list is answered at once
Resolve ==
  /\ pc = "resolve"
  /\ IF Len(sources) = 0
     THEN /\ response' = [returned |-> TRUE, streams |-> <<NoSourcesStream>>, ttl |-> NoVal]
          /\ pc' = "done"
          /\ UNCHANGED <<prioritizedSources, otherSources, loopIdx>>
     ELSE /\ prioritizedSources' = Prioritized(sources)
          /\ otherSources' = Others(sources)
          /\ pc' = IF Len(prioritizedSources') > 0 THEN "phase1" ELSE "afterPhase1"
          /\ loopIdx' = 1
          /\ UNCHANGED response
  /\ UNCHANGED <<type, showErrorsCfg, sources, resultsBefore, status, extraction,
                 allUrlResults, errorStreams, sourceErrorCount, finalCountPrioritized,
                 handleCalls, extractorCalls>>

\* an iteration of the loop that starts handleSource and does not await it
Phase1StartNoAwait ==
  /\ pc = "phase1"
  /\ LET source == prioritizedSources[loopIdx]
     IN  /\ resultsBefore' = NonErrorCount(allUrlResults)
         /\ IF Supports(source)
            THEN /\ status' = [status EXCEPT ![source] = "fetching"]
                 /\ handleCalls' = Append(handleCalls, source)
            ELSE /\ status' = [status EXCEPT ![source] = "skipped"]
                 /\ UNCHANGED handleCalls
         /\ pc' = "phase1Check"
  /\ UNCHANGED <<type, showErrorsCfg, sources, prioritizedSources, otherSources,
                 loopIdx, extraction, allUrlResults,
                 errorStreams, sourceErrorCount, finalCountPrioritized, response,
                 extractorCalls>>

\* lines 106-108 and 66-70: one iteration of the loop up to its await
Phase1Start ==
  /\ pc = "phase1"
  /\ LET source == prioritizedSources[loopIdx]
     IN  /\ resultsBefore' = NonErrorCount(allUrlResults)
         /\ IF Supports(source)
            THEN /\ status' = [status EXCEPT ![source] = "fetching"]
                 /\ handleCalls' = Append(handleCalls, source)
                 /\ pc' = "phase1Await"
            ELSE /\ status' = [status EXCEPT ![source] = "skipped"]
                 /\ pc' = "phase1Check"
                 /\ UNCHANGED handleCalls
  /\ UNCHANGED <<type, showErrorsCfg, sources, prioritizedSources, otherSources,
                 loopIdx, extraction, allUrlResults,
                 errorStreams, sourceErrorCount, finalCountPrioritized, response,
                 extractorCalls>>

\* where resolve is once the handleSource it awaits in the loop has ended
AfterHandleSource == IF pc = "phase1Await" THEN "phase1Check" ELSE pc

\* the failure of source.handle of s not caught: resolve is rejected with it
SourceFailsUncaught(s) ==
  /\ status[s] = "fetching"
  /\ status' = [status EXCEPT ![s] = "failed"]
  /\ pc' = "rejected"
  /\ UNCHANGED <<type, showErrorsCfg, sources, prioritizedSources, otherSources,
                 loopIdx, resultsBefore, extraction, allUrlResults, errorStreams,
                 sourceErrorCount, finalCountPrioritized, response, handleCalls,
                 extractorCalls>>

\* lines 90-102: source.handle of s failed
SourceFails(s) ==
  /\ status[s] = "fetching"
  /\ sourceErrorCount' = sourceErrorCount + 1
  /\ errorStreams' = IF showErrorsCfg THEN Append(errorStreams, SourceErrorStream(s))
                     ELSE errorStreams
  /\ status' = [status EXCEPT ![s] = "failed"]
  /\ pc' = AfterHandleSource
  /\ UNCHANGED <<type, showErrorsCfg, sources, prioritizedSources, otherSources,
                 loopIdx, resultsBefore, extraction,
                 allUrlResults, finalCountPrioritized, response, handleCalls,
                 extractorCalls>>

\* lines 70-76: source.handle of s returned n candidate URLs, and the extractor
\* is called for each of them (without any, lines 87-89 run at once)
SourceReturns(s, n) ==
  /\ status[s] = "fetching"
  /\ extractorCalls + n <= MaxExtractorCalls
  /\ IF n = 0
     THEN /\ status' = [status EXCEPT ![s] = "done"]
          /\ pc' = AfterHandleSource
          /\ UNCHANGED <<extraction, extractorCalls>>
     ELSE /\ status' = [status EXCEPT ![s] = "extracting"]
          /\ extraction' = [extraction EXCEPT
                              ![s] = [u \in 1..n |-> [st |-> "pending", res |-> <<>>]]]
          /\ extractorCalls' = extractorCalls + n
          /\ UNCHANGED pc
  /\ UNCHANGED <<type, showErrorsCfg, sources, prioritizedSources, otherSources,
                 loopIdx, resultsBefore, allUrlResults,
                 errorStreams, sourceErrorCount, finalCountPrioritized, response,
                 handleCalls>>

\* the results of each extractor call pushed as the call ends
ExtractorEndsPushEach(s, u, outcome) ==
  /\ status[s] = "extracting"
  /\ u \in DOMAIN extraction[s]
  /\ extraction[s][u].st = "pending"
  /\ LET calls == [extraction[s] EXCEPT ![u] = outcome]
     IN  /\ extraction' = [extraction EXCEPT ![s] = calls]
         /\ allUrlResults' = allUrlResults \o outcome.res
         /\ IF \A v \in DOMAIN calls : calls[v].st # "pending"
            THEN /\ status' = [status EXCEPT ![s] = "done"]
                 /\ pc' = AfterHandleSource
            ELSE UNCHANGED <<status, pc>>
  /\ UNCHANGED <<type, showErrorsCfg, sources, prioritizedSources, otherSources,
                 loopIdx, resultsBefore, errorStreams,
                 sourceErrorCount, finalCountPrioritized, response, handleCalls,
                 extractorCalls>>

\* lines 73-89: the extractor call for candidate URL u of s ended with `outcome`;
\* when it was the last one of s, the results of s are flattened in the order of
\* the candidate URLs and pushed
ExtractorEnds(s, u, outcome) ==
  /\ status[s] = "extracting"
  /\ u \in DOMAIN extraction[s]
  /\ extraction[s][u].st = "pending"
  /\ LET calls == [extraction[s] EXCEPT ![u] = outcome]
     IN  /\ extraction' = [extraction EXCEPT ![s] = calls]
         /\ IF \A v \in DOMAIN calls : calls[v].st # "pending"
            THEN /\ allUrlResults' = allUrlResults \o Flat([v \in DOMAIN calls |-> calls[v].res])
                 /\ status' = [status EXCEPT ![s] = "done"]
                 /\ pc' = AfterHandleSource
            ELSE UNCHANGED <<allUrlResults, status, pc>>
  /\ UNCHANGED <<type, showErrorsCfg, sources, prioritizedSources, otherSources,
                 loopIdx, resultsBefore, errorStreams,
                 sourceErrorCount, finalCountPrioritized, response, handleCalls,
                 extractorCalls>>

\* the failure of an extractor call not caught per URL: it reaches the catch of
\* line 90 and the source counts as failed, its other results lost
ExtractorFailsWholeSource(s, u) ==
  /\ status[s] = "extracting"
  /\ u \in DOMAIN extraction[s]
  /\ extraction[s][u].st = "pending"
  /\ extraction' = [extraction EXCEPT ![s][u] = [st |-> "failed", res |-> <<>>]]
  /\ sourceErrorCount' = sourceErrorCount + 1
  /\ errorStreams' = IF showErrorsCfg THEN Append(errorStreams, SourceErrorStream(s))
                     ELSE errorStreams
  /\ status' = [status EXCEPT ![s] = "failed"]
  /\ pc' = AfterHandleSource
  /\ UNCHANGED <<type, showErrorsCfg, sources, prioritizedSources, otherSources,
                 loopIdx, resultsBefore, allUrlResults, finalCountPrioritized, response,
                 handleCalls, extractorCalls>>

\* lines 81-84: the extractor threw
ExtractorFails(s, u) == ExtractorEnds(s, u, [st |-> "failed", res |-> <<>>])

\* line 76: the extractor returned no result, or one of each shape
ExtractorReturns(s, u) ==
  /\ status[s] = "extracting"
  /\ \E res \in {<<>>} \cup {<<[src |-> s, url |-> u] @@ shape>> : shape \in UrlResultShapes} :
       ExtractorEnds(s, u, [st |-> "ok", res |-> res])

\* the cutoff with the rule of a series applied to a movie
CutOffMovieAsSeries(before, after) == after >= 2

\* the cutoff of a series one result early
CutOffSeriesAtOne(before, after) ==
  IF type = "movie" THEN after - before > 0 ELSE after >= 1

\* lines 112-123: the early cutoff
CutOff(before, after) ==
  IF type = "movie" THEN after - before > 0 ELSE after >= 2

\* lines 109-124: after the await, break or go on with the next prioritized source
Phase1Check ==
  /\ pc = "phase1Check"
  /\ LET resultsAfter == NonErrorCount(allUrlResults)
     IN  IF CutOff(resultsBefore, resultsAfter) \/ loopIdx = Len(prioritizedSources)
         THEN pc' = "afterPhase1" /\ UNCHANGED loopIdx
         ELSE pc' = "phase1" /\ loopIdx' = loopIdx + 1
  /\ UNCHANGED <<type, showErrorsCfg, sources, prioritizedSources, otherSources,
                 resultsBefore, status, extraction,
                 allUrlResults, errorStreams, sourceErrorCount, finalCountPrioritized,
                 response, handleCalls, extractorCalls>>

\* the other sources asked whatever the prioritized ones found
NeedsPhase2Always(count) == Len(otherSources) > 0

\* line 131
NeedsPhase2(count) == count < minNeededForParallel /\ Len(otherSources) > 0

\* lines 128-134: with too few results every other source is handled at once
\* (handleSource runs up to its first await for each, in order); otherwise the
\* response is built right away
Phase2Start ==
  /\ pc = "afterPhase1"
  /\ finalCountPrioritized' = NonErrorCount(allUrlResults)
  /\ IF NeedsPhase2(NonErrorCount(allUrlResults))
     THEN /\ status' = [s \in SourceIds |->
                          IF s \in Range(otherSources)
                          THEN (IF Supports(s) THEN "fetching" ELSE "skipped")
                          ELSE status[s]]
          /\ handleCalls' = handleCalls \o FilterSeq(otherSources, {s \in SourceIds : Supports(s)})
          /\ pc' = "phase2Await"
          /\ UNCHANGED <<allUrlResults, response>>
     ELSE /\ Respond(allUrlResults)
          /\ UNCHANGED <<status, handleCalls>>
  /\ UNCHANGED <<type, showErrorsCfg, sources, prioritizedSources, otherSources,
                 loopIdx, resultsBefore, extraction,
                 errorStreams, sourceErrorCount, extractorCalls>>

\* the response built as soon as one of the other sources has ended
Phase2EndAtFirst ==
  /\ pc = "phase2Await"
  /\ \E s \in Range(otherSources) : Settled(s)
  /\ Respond(allUrlResults)
  /\ UNCHANGED <<type, showErrorsCfg, sources, prioritizedSources, otherSources,
                 loopIdx, resultsBefore, status, extraction,
                 errorStreams, sourceErrorCount, finalCountPrioritized, handleCalls,
                 extractorCalls>>

\* lines 133-214: Promise.all of the other sources is fulfilled
Phase2End ==
  /\ pc = "phase2Await"
  /\ \A s \in Range(otherSources) : Settled(s)
  /\ Respond(allUrlResults)
  /\ UNCHANGED <<type, showErrorsCfg, sources, prioritizedSources, otherSources,
                 loopIdx, resultsBefore, status, extraction,
                 errorStreams, sourceErrorCount, finalCountPrioritized, handleCalls,
                 extractorCalls>>

Next ==
  \/ Resolve
  \/ Phase1Start
  \/ \E s \in SourceIds : SourceFails(s)
  \/ \E s \in SourceIds, n \in 0..MaxExtractorCalls : SourceReturns(s, n)
  \/ \E s \in SourceIds, u \in 1..MaxExtractorCalls : ExtractorFails(s, u)
  \/ \E s \in SourceIds, u \in 1..MaxExtractorCalls : ExtractorReturns(s, u)
  \/ Phase1Check
  \/ Phase2Start
  \/ Phase2End

Spec == Init /\ [][Next]_vars

\* Every call into a source or into the extractor registry ends, and the steps of
\* resolve itself run when they can: no step that stays possible is put off forever.
FairSpec == Spec /\ WF_vars(Next)

(***************************************************************************)
(* The response alone: resolve from the moment its only source, which is   *)
(* not a prioritized one, has pushed its results.  The results range over  *)
(* every error flag and every ttl up to MaxTtl, which the extractor        *)
(* outcomes of Spec do not.                                                *)
(***************************************************************************)
\* the largest per-result ttl
MaxTtl == 2
\* URL results in the aggregate, at most
MaxAggregate == 3

RespondShapes ==
  { [error |-> e, isExternal |-> FALSE, height |-> 720, bytes |-> NoVal, label |-> "a", ttl |-> ttl] :
      e \in BOOLEAN, ttl \in {NoVal} \cup 0..MaxTtl }

RECURSIVE ShapeSeqs(_)
\* the sequences of at most n shapes
ShapeSeqs(n) ==
  IF n = 0 THEN {<<>>}
  ELSE LET shorter == ShapeSeqs(n - 1)
       IN  shorter \cup {Append(q, x) : q \in {r \in shorter : Len(r) = n - 1}, x \in RespondShapes}

InitRespond ==
  /\ type \in {"movie", "series"}
  /\ showErrorsCfg \in BOOLEAN
  /\ sources = <<"cuevana">>
  /\ prioritizedSources = <<>>
  /\ otherSources = <<"cuevana">>
  /\ pc = "phase2Await"
  /\ loopIdx = 1
  /\ resultsBefore = 0
  /\ \E shapes \in ShapeSeqs(MaxAggregate) :
       /\ extraction = [s \in SourceIds |->
            IF s = "cuevana"
            THEN [u \in DOMAIN shapes |->
                    [st |-> "ok", res |-> <<[src |-> s, url |-> u] @@ shapes[u]>>]]
            ELSE <<>>]
       /\ allUrlResults = [u \in DOMAIN shapes |-> [src |-> "cuevana", url |-> u] @@ shapes[u]]
       /\ extractorCalls = Len(shapes)
  /\ status = [s \in SourceIds |-> IF s = "cuevana" THEN "done" ELSE "idle"]
  /\ errorStreams = <<>>
  /\ sourceErrorCount = 0
  /\ finalCountPrioritized = 0
  /\ response = NoResponse
  /\ handleCalls = <<"cuevana">>

RespondNext == Phase2End

RespondSpec == InitRespond /\ [][RespondNext]_vars

(***************************************************************************)
(* What the properties below speak of.                                     *)
(***************************************************************************)
\* source.handle of s was invoked
Invoked(s) == s \in Range(handleCalls)

\* a call of s (its source.handle or one of its extractor calls) is in flight
InFlight(s) == status[s] \in {"fetching", "extracting"}

\* the non-error URL results of the sources in S that are in the aggregate
NonErrorFrom(S) ==
  Cardinality({k \in DOMAIN allUrlResults :
                 allUrlResults[k].src \in S /\ ~allUrlResults[k].error})

\* the prioritized sources before position j of the loop
PrioritizedBefore(j) == {prioritizedSources[i] : i \in 1..(j - 1)}

\* the loop over the prioritized sources has been left
Phase1Over == pc \in {"afterPhase1", "phase2Await"} \/ (pc = "done" /\ Len(sources) > 0)

\* line 131 has been decided
Phase2Decided == pc = "phase2Await" \/ (pc = "done" /\ Len(sources) > 0)

(***************************************************************************)
(* Scheduling: the early cutoff and the two phases.                        *)
(***************************************************************************)
\* C1: for a movie, once a prioritized source has contributed a non-error URL
\* result, no prioritized source after it and no other source is ever queried.
C1_MovieCutoff ==
  type = "movie" =>
    \A i \in DOMAIN prioritizedSources :
      NonErrorFrom({prioritizedSources[i]}) >= 1 =>
        /\ \A j \in (i + 1)..Len(prioritizedSources) : ~Invoked(prioritizedSources[j])
        /\ \A o \in Range(otherSources) : ~Invoked(o)

\* a movie was answered from the first of two prioritized sources that support it
C1_Witness ==
  /\ type = "movie"
  /\ response.returned
  /\ Len(prioritizedSources) = 2
  /\ Supports(prioritizedSources[2])
  /\ NonErrorFrom({prioritizedSources[1]}) >= 1

\* C2: for a series the loop over the prioritized sources goes on to a source only
\* while the sources before it have contributed fewer than 2 non-error results,
\* and it is left only with 2 or more results or with no prioritized source left.
C2_SeriesCutoff ==
  type = "series" =>
    /\ \A j \in DOMAIN prioritizedSources :
         status[prioritizedSources[j]] # "idle" => NonErrorFrom(PrioritizedBefore(j)) < 2
    /\ Phase1Over =>
         \/ NonErrorFrom(Range(prioritizedSources)) >= 2
         \/ \A j \in DOMAIN prioritizedSources : status[prioritizedSources[j]] # "idle"

\* a series was answered from the first prioritized source, which found 2 results
\* while a second prioritized source that supports series was never started
C2_Witness ==
  /\ type = "series"
  /\ response.returned
  /\ Len(prioritizedSources) = 2
  /\ Supports(prioritizedSources[2])
  /\ NonErrorFrom({prioritizedSources[1]}) = 2
  /\ status[prioritizedSources[2]] = "idle"

\* C3: with minNeeded or more non-error results when the loop over the prioritized
\* sources is left, no other source is ever invoked.
C3_Phase2Skipped ==
  (Phase1Over /\ NonErrorFrom(Range(prioritizedSources)) >= minNeededForParallel) =>
    \A o \in Range(otherSources) : ~Invoked(o)

\* enough results from the prioritized source, and another source left unasked
C3_Witness ==
  /\ response.returned
  /\ NonErrorFrom(Range(prioritizedSources)) >= minNeededForParallel
  /\ \E o \in Range(otherSources) : Supports(o) /\ status[o] = "idle"

\* C4: with fewer than minNeeded results after the prioritized sources and another
\* source in the list, every other source that supports the type is invoked in the
\* step that starts phase 2, and the response is returned only when none of them
\* has a source call or an extractor call in flight, whatever has arrived so far.
C4_Phase2AllAtOnce ==
  /\ (Phase2Decided /\ NonErrorFrom(Range(prioritizedSources)) < minNeededForParallel) =>
       \A o \in Range(otherSources) : Supports(o) => Invoked(o)
  /\ response.returned =>
       \A o \in Range(otherSources) :
         /\ ~InFlight(o)
         /\ \A u \in DOMAIN extraction[o] : extraction[o][u].st # "pending"

\* two other sources ran, each found a non-error result (the first to end had
\* already brought minNeeded), and the response came after both
C4_Witness ==
  /\ type = "movie"
  /\ response.returned
  /\ Len(otherSources) = 2
  /\ \A o \in Range(otherSources) : status[o] = "done" /\ NonErrorFrom({o}) = 1

\* the position of each source id in prioritySourceIds, 0 for one that is not in it
PriorityRank == [s \in SourceIds |-> IndexOf(prioritySourceIds, s)]

\* C5: the prioritized sources are handled in the order of prioritySourceIds
\* whatever the order of the sources argument, one at a time: a prioritized source
\* is started only when every prioritized source before it in that order has
\* ended, with its extractor calls, and at most one has a call in flight.
C5_Phase1Sequential ==
  LET listed == {p \in Range(sources) : PriorityRank[p] > 0}
  IN  /\ \A p, q \in listed :
           (status[p] # "idle" /\ PriorityRank[q] < PriorityRank[p])
             => (Settled(q) /\ \A u \in DOMAIN extraction[q] : extraction[q][u].st # "pending")
      /\ Cardinality({p \in listed : InFlight(p)}) <= 1

\* the sources argument names two prioritized sources against the order of
\* prioritySourceIds, and both were invoked, in the order of prioritySourceIds
C5_Witness ==
  /\ Len(sources) = 2
  /\ Len(handleCalls) = 2
  /\ \A k \in 1..2 : sources[k] \in Range(prioritySourceIds)
  /\ IndexOf(prioritySourceIds, sources[1]) > IndexOf(prioritySourceIds, sources[2])
  /\ handleCalls[1] = sources[2]
  /\ handleCalls[2] = sources[1]

(***************************************************************************)
(* The ttl of the response.                                                *)
(***************************************************************************)
\* C6: when no source failed, the response has ttl 900000 for an empty aggregate,
\* no ttl when a URL result has none, and otherwise a ttl, which is the least of
\* the ttls of the URL results.
C6_TtlPolicy ==
  (response.returned /\ Len(sources) > 0 /\ \A s \in SourceIds : status[s] # "failed") =>
    /\ allUrlResults = <<>> => response.ttl = 900000
    /\ (\E k \in DOMAIN allUrlResults : allUrlResults[k].ttl = NoVal) => response.ttl = NoVal
    /\ (allUrlResults # <<>> /\ \A k \in DOMAIN allUrlResults : allUrlResults[k].ttl # NoVal) =>
         /\ response.ttl # NoVal
         /\ \E k \in DOMAIN allUrlResults : response.ttl = allUrlResults[k].ttl
         /\ \A k \in DOMAIN allUrlResults : response.ttl <= allUrlResults[k].ttl

\* C7: when source.handle of a source failed, the response has no ttl.
C7_SourceErrorNoTtl ==
  (response.returned /\ \E s \in SourceIds : status[s] = "failed") => response.ttl = NoVal

\* a source failed with showErrors off while the aggregate holds only URL results
\* with a ttl above 0, which would have given the response a ttl
C7_Witness ==
  /\ response.returned
  /\ ~showErrorsCfg
  /\ \E s \in SourceIds : status[s] = "failed"
  /\ allUrlResults # <<>>
  /\ \A k \in DOMAIN allUrlResults : allUrlResults[k].ttl > 0

(***************************************************************************)
(* Failures of sources and of extractor calls.                             *)
(***************************************************************************)
\* every URL result the extractor returned for a source that has ended is in the aggregate
ResultsKept ==
  \A s \in SourceIds :
    status[s] = "done" =>
      \A u \in DOMAIN extraction[s] :
        \A r \in Range(extraction[s][u].res) : r \in Range(allUrlResults)

\* a source that supports the type is left unqueried only because the prioritized
\* sources brought minNeeded results
UnqueriedOnlyByCutoff ==
  \A s \in Range(sources) :
    (Supports(s) /\ ~Invoked(s)) =>
      NonErrorFrom(Range(prioritizedSources)) >= minNeededForParallel

\* C8: when every call ends, resolve returns a response whatever failed; by then
\* every source the cutoff rules select was queried, failed sources or not, and
\* the results of every source that ended well are in the aggregate.
C8_AlwaysReturns ==
  /\ <>response.returned
  /\ [](response.returned /\ Len(sources) > 0 => UnqueriedOnlyByCutoff /\ ResultsKept)

\* a source failed, an extractor call of its sibling failed, and the sibling's
\* other URL still brought a result into the response
C8_Witness ==
  /\ response.returned
  /\ \E s, t \in Range(sources) :
       /\ status[s] = "failed"
       /\ status[t] = "done"
       /\ \E u \in DOMAIN extraction[t] : extraction[t][u].st = "failed"
       /\ NonErrorFrom({t}) >= 1

\* C9: an extractor call that failed for a candidate URL leaves no result of that
\* URL; the source is not failed by it, gets no error stream and is not counted in
\* sourceErrorCount; the results of its other URLs are in the aggregate; and the
\* ttl of the response is the one determined from the aggregate.
C9_ExtractorFailureLocal ==
  /\ sourceErrorCount = Cardinality({s \in SourceIds : status[s] = "failed" /\ extraction[s] = <<>>})
  /\ \A s \in SourceIds : \A u \in DOMAIN extraction[s] :
       extraction[s][u].st = "failed" =>
         /\ status[s] # "failed"
         /\ SourceErrorStream(s) \notin Range(errorStreams)
         /\ \A k \in DOMAIN allUrlResults :
              ~(allUrlResults[k].src = s /\ allUrlResults[k].url = u)
         /\ status[s] = "done" =>
              \A v \in DOMAIN extraction[s] :
                \A r \in Range(extraction[s][v].res) : r \in Range(allUrlResults)
  /\ (response.returned /\ Len(sources) > 0 /\ \A s \in SourceIds : status[s] # "failed") =>
       (determineTtl(allUrlResults) > 0 => response.ttl = determineTtl(allUrlResults))

\* one extractor call of a source failed, the one for its other URL brought a
\* result with a ttl, and the response has that ttl
C9_Witness ==
  /\ response.returned
  /\ response.ttl = 2
  /\ \E s \in Range(sources) :
       /\ Len(extraction[s]) = 2
       /\ extraction[s][1].st = "failed"
       /\ extraction[s][2].st = "ok"
       /\ NonErrorFrom({s}) = 1

(***************************************************************************)
(* The empty sources list.                                                 *)
(***************************************************************************)
\* C10: for an empty sources list the response has exactly one stream, the notice
\* with an externalUrl, and no ttl, and no source and no extractor is ever invoked.
C10_EmptySources ==
  Len(sources) = 0 =>
    /\ handleCalls = <<>>
    /\ extractorCalls = 0
    /\ response.returned =>
         /\ Len(response.streams) = 1
         /\ response.streams[1].kind = "noSources"
         /\ response.streams[1].source = "hostUrl"
         /\ response.ttl = NoVal
    /\ pc # "resolve" => response.returned

\* the call with an empty sources list has returned
C10_Witness == Len(sources) = 0 /\ response.returned

(***************************************************************************)
(* The order of the streams and the arrival order of concurrent calls.     *)
(***************************************************************************)
\* the sources in the order in which resolve starts them
StartOrder == prioritizedSources \o otherSources

\* what the extractor calls of s returned, in the order of its candidate URLs
ResultsOf(s) ==
  IF status[s] = "done" THEN Flat([v \in DOMAIN extraction[s] |-> extraction[s][v].res])
  ELSE <<>>

\* the aggregate had every source ended in the order in which it was started
AggregateInStartOrder == Flat([k \in DOMAIN StartOrder |-> ResultsOf(StartOrder[k])])

\* the source-error streams had the failed sources failed in that order
ErrorStreamsInStartOrder ==
  IF showErrorsCfg
  THEN LET failed == FilterSeq(StartOrder, {s \in SourceIds : status[s] = "failed"})
       IN  [k \in DOMAIN failed |-> SourceErrorStream(failed[k])]
  ELSE <<>>

\* C11: the streams of the response are a function of the inputs and of the
\* outcomes of the source and extractor calls alone: whatever the order in which
\* the concurrent calls ended, they are the streams of the run in which every
\* source ended in the order in which it was started.
C11_OrderIndependent ==
  (response.returned /\ Len(sources) > 0) =>
    response.streams = BuildStreams(ErrorStreamsInStartOrder,
                                    SortUrlResults(AggregateInStartOrder), showErrorsCfg)

(***************************************************************************)
(* The ranking alone.  Both specifications start where the only source,    *)
(* not a prioritized one, has pushed its results, and take the one step    *)
(* that sorts them and builds the response.                                *)
(***************************************************************************)
\* resolve awaits Promise.all of line 133 and its only source, cuevana, has
\* pushed one URL result of each of the shapes, in their order
OnlySourcePushed(shapes) ==
  /\ sources = <<"cuevana">>
  /\ prioritizedSources = <<>>
  /\ otherSources = <<"cuevana">>
  /\ pc = "phase2Await"
  /\ loopIdx = 1
  /\ resultsBefore = 0
  /\ extraction = [s \in SourceIds |->
       IF s = "cuevana"
       THEN [u \in DOMAIN shapes |->
               [st |-> "ok", res |-> <<[src |-> s, url |-> u] @@ shapes[u]>>]]
       ELSE <<>>]
  /\ allUrlResults = [u \in DOMAIN shapes |-> [src |-> "cuevana", url |-> u] @@ shapes[u]]
  /\ extractorCalls = Len(shapes)
  /\ status = [s \in SourceIds |-> IF s = "cuevana" THEN "done" ELSE "idle"]
  /\ errorStreams = <<>>
  /\ sourceErrorCount = 0
  /\ finalCountPrioritized = 0
  /\ response = NoResponse
  /\ handleCalls = <<"cuevana">>

\* URL results over every key the comparator reads; a missing height and a
\* height of 0 are both there
CompareShapes ==
  [error : BOOLEAN, isExternal : BOOLEAN, height : {NoVal, 0, 720}, bytes : {NoVal, 2},
   label : {"a", "b"}, ttl : {NoVal}]

\* three URL results are ranked
InitCompare ==
  /\ type = "movie"
  /\ showErrorsCfg = TRUE
  /\ \E a, b, c \in CompareShapes : OnlySourcePushed(<<a, b, c>>)

CompareNext == Phase2End

CompareSpec == InitCompare /\ [][CompareNext]_vars

\* the largest number of URL results that are sorted
MaxRanked == 4

\* URL results of every class, of two heights
RankShapes ==
  [error : BOOLEAN, isExternal : BOOLEAN, height : {720, 1080}, bytes : {NoVal},
   label : {"a"}, ttl : {NoVal}]

RECURSIVE RankSeqs(_)
\* the sequences of at most n of them
RankSeqs(n) ==
  IF n = 0 THEN {<<>>}
  ELSE LET shorter == RankSeqs(n - 1)
       IN  shorter \cup {Append(q, x) : q \in {r \in shorter : Len(r) = n - 1}, x \in RankShapes}

InitRank ==
  /\ type \in {"movie", "series"}
  /\ showErrorsCfg \in BOOLEAN
  /\ \E shapes \in RankSeqs(MaxRanked) : OnlySourcePushed(shapes)

RankNext == Phase2End

RankSpec == InitRank /\ [][RankNext]_vars

\* the comparison ranks a before b, whichever of the two is its first argument
RanksBefore(a, b) == Compare(a, b) < 0 \/ Compare(b, a) > 0

\* the keys of the ranking
KeysOf(r) == <<r.error, r.isExternal, OrZero(r.height), OrZero(r.bytes), r.label>>

\* C12: the comparison is a strict weak order on the URL results: it ranks no
\* result before itself, no two results each before the other, it is transitive,
\* and of two results that differ in a key it ranks one before the other, two
\* error results and two external results included.
C12_StrictWeakOrder ==
  \A i, j, k \in DOMAIN allUrlResults :
    LET a == allUrlResults[i]
        b == allUrlResults[j]
        c == allUrlResults[k]
    IN  /\ ~RanksBefore(a, a)
        /\ ~(RanksBefore(a, b) /\ RanksBefore(b, a))
        /\ (RanksBefore(a, b) /\ RanksBefore(b, c)) => RanksBefore(a, c)
        /\ KeysOf(a) # KeysOf(b) => (RanksBefore(a, b) \/ RanksBefore(b, a))

\* the sorted aggregate has the classes in order: r[i].error and r[i].isExternal
\* never before a result they must follow
ClassesInOrder(r) ==
  \A i, j \in DOMAIN r :
    i < j => /\ ~(r[i].error /\ ~r[j].error)
             /\ ~(~r[i].error /\ ~r[j].error /\ r[i].isExternal /\ ~r[j].isExternal)

\* the URL results behind the streams of the response, in their order
StreamResults ==
  LET urlStreams == SelectSeq(response.streams, LAMBDA st : st.kind = "url")
  IN  [k \in DOMAIN urlStreams |-> urlStreams[k].result[1]]

\* C13: in the sorted aggregate and among the streams of the response, every
\* error result comes after every non-error result, and among the non-error
\* results every external one after every non-external one.
C13_ClassesOrdered ==
  (response.returned /\ Len(sources) > 0) =>
    ClassesInOrder(allUrlResults) /\ ClassesInOrder(StreamResults)

\* an error result was pushed first, then an external one, then a plain one, and
\* all three are streams of the response
C13_Witness ==
  /\ response.returned
  /\ Len(response.streams) = 3
  /\ \E s \in Range(sources) :
       /\ Len(extraction[s]) = 3
       /\ extraction[s][1].res[1].error
       /\ ~extraction[s][2].res[1].error /\ extraction[s][2].res[1].isExternal
       /\ ~extraction[s][3].res[1].error /\ ~extraction[s][3].res[1].isExternal

\* a and b are in the same class: both error, or both non-error and both external
\* or both not
SameClass(a, b) ==
  \/ a.error /\ b.error
  \/ ~a.error /\ ~b.error /\ a.isExternal = b.isExternal

\* a goes first by height, then bytes, then label
FirstByKeys(a, b) ==
  \/ OrZero(a.height) > OrZero(b.height)
  \/ OrZero(a.height) = OrZero(b.height) /\ OrZero(a.bytes) > OrZero(b.bytes)
  \/ /\ OrZero(a.height) = OrZero(b.height)
     /\ OrZero(a.bytes) = OrZero(b.bytes)
     /\ LabelRank(a.label) < LabelRank(b.label)

\* C14: of two URL results of the same class, the sorted aggregate has first the
\* one with the higher height (a missing one is 0), at equal heights the one with
\* the higher bytes (a missing one is 0), at equal heights and bytes the one with
\* the smaller label.
C14_KeysWithinClass ==
  response.returned =>
    \A i, j \in DOMAIN allUrlResults :
      (SameClass(allUrlResults[i], allUrlResults[j])
         /\ FirstByKeys(allUrlResults[i], allUrlResults[j])) => i < j

(***************************************************************************)
(* What is shown of failures.                                              *)
(***************************************************************************)
\* how many of the streams in strm are the synthesized error stream of s
ErrorStreamsOf(strm, s) == Cardinality({k \in DOMAIN strm : strm[k] = SourceErrorStream(s)})

\* strm has one synthesized error stream for each source whose handle failed when
\* showErrors is on, none for any other source, and none at all when it is off
OnePerFailedSource(strm) ==
  IF showErrorsCfg
  THEN \A s \in SourceIds : ErrorStreamsOf(strm, s) = IF status[s] = "failed" THEN 1 ELSE 0
  ELSE \A k \in DOMAIN strm : strm[k].kind # "sourceError"

\* C15: a source whose handle failed has exactly one synthesized error stream when
\* showErrors is on, and every such stream of the response precedes every stream
\* of a URL result; with showErrors off there is no synthesized stream, and the
\* failure is counted in sourceErrorCount all the same.
C15_SourceErrorStreams ==
  /\ sourceErrorCount = Cardinality({s \in SourceIds : status[s] = "failed"})
  /\ OnePerFailedSource(errorStreams)
  /\ Len(errorStreams) = IF showErrorsCfg THEN sourceErrorCount ELSE 0
  /\ (response.returned /\ Len(sources) > 0) =>
       /\ OnePerFailedSource(response.streams)
       /\ \A i, j \in DOMAIN response.streams :
            (response.streams[i].kind = "sourceError" /\ response.streams[j].kind = "url")
              => i < j

\* with showErrors on a source failed, another one brought a URL result, and the
\* response has the error stream of the first before the stream of the result
C15_Witness ==
  /\ response.returned
  /\ showErrorsCfg
  /\ Len(response.streams) = 2
  /\ response.streams[1].kind = "sourceError"
  /\ status[response.streams[1].source] = "failed"
  /\ response.streams[2].kind = "url"

\* C16: the URL results behind the streams of the response are the results of the
\* sorted aggregate that are no error results, or all of them with showErrors on,
\* each once and in the order of the aggregate; with showErrors off no stream is
\* one of an error result or a synthesized one, and there are as many streams as
\* non-error URL results.
C16_StreamPerShownResult ==
  (response.returned /\ Len(sources) > 0) =>
    /\ StreamResults = SelectSeq(allUrlResults, LAMBDA r : ~r.error \/ showErrorsCfg)
    /\ \A k \in DOMAIN response.streams :
         response.streams[k].kind = "url" => Len(response.streams[k].result) = 1
    /\ ~showErrorsCfg =>
         /\ \A k \in DOMAIN response.streams :
              response.streams[k].kind = "url" /\ ~response.streams[k].result[1].error
         /\ Len(response.streams) = NonErrorCount(allUrlResults)

\* with showErrors off a source failed and another brought an error result and a
\* non-error result: the response has the one stream of the latter
C16_Witness ==
  /\ response.returned
  /\ ~showErrorsCfg
  /\ \E s \in Range(sources) : status[s] = "failed"
  /\ \E k \in DOMAIN allUrlResults : allUrlResults[k].error
  /\ Len(response.streams) = 1

(***************************************************************************)
(* Sources that do not support the requested content type.                 *)
(***************************************************************************)
\* the content types of s do not include the requested one
Unsupported(s) == type \notin ContentTypesOf(s)

\* C17: a source that does not support the type is never invoked, has no extractor
\* call, no URL result and no error stream, and is not counted in
\* sourceErrorCount; when the loop over the prioritized sources has passed it,
\* the count of results is the one from before it and the loop is not cut off;
\* and a sources list of such sources only is answered with no stream and the
\* ttl 900000.
C17_UnsupportedSkipped ==
  /\ \A n \in DOMAIN sources :
       LET s == sources[n]
       IN  Unsupported(s) =>
             /\ \A k \in DOMAIN handleCalls : handleCalls[k] # s
             /\ status[s] \in {"idle", "skipped"}
             /\ extraction[s] = <<>>
             /\ \A k \in DOMAIN allUrlResults : allUrlResults[k].src # s
             /\ \A k \in DOMAIN errorStreams : errorStreams[k].source # s
             /\ sourceErrorCount =
                  Cardinality({t \in Range(sources) : ~Unsupported(t) /\ status[t] = "failed"})
  /\ (pc = "phase1Check" /\ Unsupported(prioritizedSources[loopIdx])) =>
       /\ NonErrorCount(allUrlResults) = resultsBefore
       /\ NonErrorCount(allUrlResults) < minNeededForParallel
  /\ (response.returned /\ Len(sources) > 0 /\ \A s \in Range(sources) : Unsupported(s)) =>
       /\ response.streams = <<>>
       /\ response.ttl = 900000

\* the only source of the list does not support the type, and resolve has returned
C17_Witness ==
  /\ response.returned
  /\ Len(sources) > 0
  /\ \A s \in Range(sources) : Unsupported(s) /\ status[s] = "skipped"

(***************************************************************************)
(* The quality and resolution fields: the response to one URL result of    *)
(* each height at and around the thresholds.                               *)
(***************************************************************************)
QualityHeights ==
  {NoVal, 0, 239, 240, 359, 360, 479, 480, 575, 576, 719, 720, 1079, 1080,
   1439, 1440, 2159, 2160, 4320}

InitQuality ==
  /\ type \in {"movie", "series"}
  /\ showErrorsCfg \in BOOLEAN
  /\ \E h \in QualityHeights, e \in BOOLEAN :
       OnlySourcePushed(<<[error |-> e, isExternal |-> FALSE, height |-> h,
                           bytes |-> NoVal, label |-> "a", ttl |-> NoVal]>>)

QualityNext == Phase2End

QualitySpec == InitQuality /\ [][QualityNext]_vars

Thresholds == {2160, 1440, 1080, 720, 576, 480, 360}

ThresholdLabel(t) ==
  CASE t = 2160 -> "2160p"
    [] t = 1440 -> "1440p"
    [] t = 1080 -> "1080p"
    [] t = 720  -> "720p"
    [] t = 576  -> "576p"
    [] t = 480  -> "480p"
    [] t = 360  -> "360p"

\* the label of the largest threshold that is at most h, "240p" below all of them
QualityOf(h) ==
  LET reached == {t \in Thresholds : t <= h}
  IN  IF reached = {} THEN "240p"
      ELSE ThresholdLabel(CHOOSE t \in reached : \A u \in reached : u <= t)

ResolutionOf(q) ==
  IF q = "2160p" THEN "4K"
  ELSE IF q = "1440p" THEN "QHD"
  ELSE IF q = "1080p" THEN "FHD"
  ELSE IF q = "720p" THEN "HD"
  ELSE IF q \in {"576p", "480p", "360p"} THEN "SD"
  ELSE "n/a"

\* C18: the stream of a URL result with a height has the quality label of the
\* largest threshold that is at most the height, "240p" below 360, and the
\* resolution that belongs to that label; the stream of one without a height has
\* neither field.
C18_QualityLabels ==
  response.returned =>
    \A k \in DOMAIN response.streams :
      response.streams[k].kind = "url" =>
        LET h == response.streams[k].result[1].height
            s == response.streams[k]
        IN  IF h = NoVal
            THEN s.quality = NoLabel /\ s.resolution = NoLabel
            ELSE /\ s.quality = QualityOf(h)
                 /\ s.quality # NoLabel
                 /\ s.resolution = ResolutionOf(s.quality)

\* the response has the stream of a URL result whose height is a threshold
C18_Witness ==
  /\ response.returned
  /\ Len(response.streams) = 1
  /\ response.streams[1].result[1].height = 576
  /\ response.streams[1].quality = "576p"
  /\ response.streams[1].resolution = "SD"

(***************************************************************************)
(* Which source is invoked when, and how the aggregate is filled.          *)
(***************************************************************************)
\* no extractor call of s is pending
NonePending(s) == \A u \in DOMAIN extraction[s] : extraction[s][u].st # "pending"

\* C19: source.handle is invoked at most once per source; every invocation of a
\* prioritized source precedes every invocation of another source; a prioritized
\* source has a call in flight only while the loop of phase 1 awaits it; and
\* another source is invoked only once line 131 has been decided, with no source
\* call and no extractor call of a prioritized source in flight.
C19_PhasesApart ==
  LET prioritized == Range(prioritizedSources)
      others      == Range(otherSources)
  IN  /\ \A j \in DOMAIN handleCalls : \A i \in 1..(j - 1) :
           /\ handleCalls[i] # handleCalls[j]
           /\ ~(handleCalls[i] \in others /\ handleCalls[j] \in prioritized)
      /\ \A p \in prioritized :
           (InFlight(p) \/ ~NonePending(p))
             => (pc = "phase1Await" /\ p = prioritizedSources[loopIdx])
      /\ \A o \in others :
           (status[o] # "idle" \/ \E k \in DOMAIN handleCalls : handleCalls[k] = o) =>
             /\ Phase2Decided
             /\ \A p \in prioritized : ~InFlight(p) /\ NonePending(p)

\* a prioritized source was invoked and brought no result, and the other source
\* of the list has its call in flight
C19_Witness ==
  /\ pc = "phase2Await"
  /\ Len(handleCalls) = 2
  /\ handleCalls[1] \in Range(prioritizedSources)
  /\ status[handleCalls[1]] = "done"
  /\ handleCalls[2] \in Range(otherSources)
  /\ InFlight(handleCalls[2])

\* the URL results of s in the aggregate, in their order there
BlockOf(s) == SelectSeq(allUrlResults, LAMBDA r : r.src = s)

\* the aggregate while the sources are scheduled: results of ended sources only,
\* those of each source together and in the order of its candidate URLs; none of
\* a source whose handle failed
BlocksOfEndedSources ==
  /\ \A k \in DOMAIN allUrlResults : status[allUrlResults[k].src] = "done"
  /\ \A s \in SourceIds : status[s] = "done" => NonePending(s)
  /\ pc # "done" =>
       /\ \A s \in SourceIds : status[s] = "done" => BlockOf(s) = ResultsOf(s)
       /\ \A i, j, k \in DOMAIN allUrlResults :
            (i < k /\ k < j /\ allUrlResults[i].src = allUrlResults[j].src)
              => allUrlResults[k].src = allUrlResults[i].src

\* a step before the sort leaves the aggregate alone or appends to it everything
\* the extractor calls of one source returned, when the last of them ends
AppendsWholeSource ==
  pc' # "done" =>
    \/ allUrlResults' = allUrlResults
    \/ \E s \in SourceIds :
         /\ status[s] = "extracting"
         /\ status'[s] = "done"
         /\ allUrlResults' =
              allUrlResults \o Flat([v \in DOMAIN extraction'[s] |-> extraction'[s][v].res])

\* C20: the URL results of a source are appended to the aggregate in one step, once
\* all its extractor calls have ended and in the order of its candidate URLs: the
\* aggregate holds only the results of ended sources, each source's in one block,
\* it only grows until it is sorted, and a failed source has no result in it.
C20_AppendedPerSource == []BlocksOfEndedSources /\ [][AppendsWholeSource]_vars

\* a source with two candidate URLs has ended and the results of both are in the
\* aggregate, in the order of the URLs
C20_Witness ==
  /\ pc # "done"
  /\ \E s \in Range(sources) :
       /\ status[s] = "done"
       /\ Len(extraction[s]) = 2
       /\ Len(allUrlResults) = 2
       /\ allUrlResults[1].src = s /\ allUrlResults[1].url = 1
       /\ allUrlResults[2].src = s /\ allUrlResults[2].url = 2

====
